---- MODULE Spec2Model ----
(***************************************************************************)
(* Great Salt Lake heatmap: the data loader (DataLoader.js) and the heatmap *)
(* renderer (HeatmapRenderer.jsx) as state machines.                        *)
(*                                                                          *)
(* Numbers are fixed-point integers:                                        *)
(*   density      in 1e-6 g/cm3   (1.02 is 1020000)                         *)
(*   salinity     in 1e-3 g/L     (150 is 150000)                           *)
(*   temperature  in 1e-3 deg F   (35.1 is 35100)                           *)
(*   Math.random  in 1e-3         (0 .. 999)                                *)
(* A 'YYYY-MM' key is the integer YYYY*100+MM: for four-digit years and     *)
(* zero-padded months the string order of the keys is the order of these    *)
(* integers.  The model watches the calendar through CalendarWindow: every  *)
(* month the program produces outside that window is left out.              *)
(***************************************************************************)
EXTENDS Integers, Sequences, FiniteSets, TLC

VARIABLES
    pc,                 \* position inside loadSiteAndTempData
    sitesJson,          \* the feed's site records (after the allowed-site filter)
    siteIdx,            \* forEach position over sitesJson
    readIdx,            \* number of readings of the current site handled so far
    processedStations,  \* sequence of station records
    tempLookup,         \* 'YYYY-MM' -> list of raw temperatures | number | NaN
    densityLookup,      \* 'YYYY-MM' -> (station id -> value)
    salinityLookup,     \* 'YYYY-MM' -> (station id -> value)
    timePoints,         \* timePointsSet (insertion order), later allTimePoints
    hasRealDensity,
    hasRealSalinity,
    usingMockData,
    errorMessage,       \* "null" or the kind of message
    dataRanges,         \* [density |-> <<min, max>>, salinity |-> <<min, max>>]
    path,               \* which branch produced the result
    realDensity,        \* history: <<ym, id, value>> of every density extracted
    realSalinity,       \* history: <<ym, id, value>> of every salinity extracted
    feedMonths,         \* history: months of the readings dated on/after 2000-01
    sawBadDate,         \* history: the feed held a reading with a bad date
    rpc,                \* position inside renderHeatmap
    stationsProp,       \* prop: the station list (stations)
    currentDataForTimepoint,  \* prop: station id -> value at the current time point
    northDataPoints,    \* samples of the north arm
    southDataPoints,    \* samples of the south arm
    cell,               \* the raster cell interpolated last
    lakeDataProp,       \* the boundary geometry passed to the renderer
    images,             \* the region images appended to the display
    call,               \* the helper function applied last: its name, argument, result
    apc,                \* position of loadData in the main component
    response,           \* the boundary fetch of loadGeoJsonData
    state,              \* the state hooks of the main component
    frame               \* the render effect of HeatmapRenderer: its dependencies,
                        \* its animationId, the frames requested, the selection drawn

loaderVars == <<pc, sitesJson, siteIdx, readIdx, processedStations, tempLookup,
                densityLookup, salinityLookup, timePoints, hasRealDensity,
                hasRealSalinity, usingMockData, errorMessage, dataRanges, path,
                realDensity, realSalinity, feedMonths, sawBadDate>>

renderVars == <<lakeDataProp, images, rpc, stationsProp, currentDataForTimepoint, northDataPoints,
                southDataPoints, cell>>

helperVars == <<call>>

appVars == <<apc, response, state>>

frameVars == <<frame>>

besidesLoader == <<renderVars, helperVars, appVars, frameVars>>

besidesRender == <<loaderVars, helperVars, appVars, frameVars>>

besidesHelpers == <<loaderVars, renderVars, appVars, frameVars>>

besidesApp == <<loaderVars, renderVars, helperVars, frameVars>>

vars == <<loaderVars, renderVars, helperVars, appVars, frameVars>>

-----------------------------------------------------------------------------
(* Bounds of the model *)

MaxSites == 2
MaxReadings == 2
MaxLabLike == 2
MaxSliderIndex == 3
MaxPendingFrames == 2

(* Program constants *)

DENSITY_MIN == 1020000
DENSITY_MAX == 1280000
SALINITY_MIN == 30000
SALINITY_MAX == 280000
MIN_DATE == 200001

ALLOWED_SITES == <<"AC3", "AIS", "AS2", "FB2", "RT4", "RD2", "SJ-1", "RD1", "LVG4">>

CalendarWindow == {199912, 200001, 202503, 202504, 202511}

-----------------------------------------------------------------------------
(* JavaScript values *)

Num(n) == [k |-> "num", v |-> n]
NaN == [k |-> "nan", v |-> 0]
Absent == [k |-> "absent", v |-> 0]
Null == [k |-> "null", v |-> 0]
StrNum(n) == [k |-> "strnum", v |-> n]
StrBad == [k |-> "str", v |-> 0]

IsNum(x) == x.k = "num"

\* a conversion that reads whatever is not numeric as zero
ZeroUnlessNumeric(x) == IF x.k \in {"num", "strnum"} THEN Num(x.v) ELSE Num(0)

\* parseFloat of a field that is neither undefined nor null
parseFloat(x) == IF x.k \in {"num", "strnum"} THEN Num(x.v) ELSE NaN

EmptyMap == [x \in {} |-> 0]

Range(s) == {s[i] : i \in 1..Len(s)}

\* obj[ym][id] = val, creating obj[ym] when it is missing
Put2(obj, ym, id, val) ==
    LET inner == IF ym \in DOMAIN obj THEN obj[ym] ELSE EmptyMap
    IN  (ym :> ((id :> val) @@ inner)) @@ obj

Has2(obj, ym, id) == ym \in DOMAIN obj /\ id \in DOMAIN obj[ym]

YearOf(ym) == ym \div 100
MonthOf(ym) == ym % 100

\* Array.prototype.sort on 'YYYY-MM' keys
RECURSIVE Insert(_, _)
Insert(x, s) ==
    IF s = <<>> THEN <<x>>
    ELSE IF x <= Head(s) THEN <<x>> \o s
    ELSE <<Head(s)>> \o Insert(x, Tail(s))

\* a sort that is left out
SortNothing(s) == s

RECURSIVE Sort(_)
Sort(s) == IF s = <<>> THEN <<>> ELSE Insert(Head(s), Sort(Tail(s)))

\* Set.add / "push unless included"
AddUnique(s, x) == IF x \in Range(s) THEN s ELSE Append(s, x)

\* 1e6 * sin((month - 1) / 12 * 2 * PI), rounded
SinMicro(month) ==
    CASE month \in {1, 7} -> 0
      [] month \in {2, 6} -> 500000
      [] month \in {3, 5} -> 866025
      [] month = 4 -> 1000000
      [] month \in {8, 12} -> -500000
      [] month \in {9, 11} -> -866025
      [] OTHER -> -1000000

\* Math.random(): the n-th draw of one of three streams
Seeds == {"low", "high", "alternate"}
Random(seed, n) ==
    CASE seed = "low" -> 0
      [] seed = "high" -> 999
      [] OTHER -> IF n % 2 = 0 THEN 0 ELSE 999

Clamp(lo, hi, x) == IF x < lo THEN lo ELSE IF x > hi THEN hi ELSE x

-----------------------------------------------------------------------------
(* The station feed: what fetch(API_ENDPOINT) can deliver *)

\* A reading's date: absent/empty, an unparseable string, or a parseable date
\* whose local year and month are ym
NoDate == [kind |-> "missing", ym |-> 0]
BadDate == [kind |-> "invalid", ym |-> 0]
DateIn(ym) == [kind |-> "valid", ym |-> ym]

Reading(date, temperature, lab, density, salinityEOS, salinity) ==
    [date |-> date, temperature |-> temperature, lab |-> lab,
     labLike |-> <<>>, labFirst |-> TRUE,
     density |-> density, salinityEOS |-> salinityEOS, salinity |-> salinity]

\* The readings a site's array is made of (null entries apart)
ReadingUniverse ==
    { Reading(DateIn(200001), Absent, StrNum(1180000), Absent, Absent, Absent),
      Reading(DateIn(200001), Absent, Absent, Num(-5000000), Absent, Absent),
      Reading(DateIn(202503), Absent, Absent, Num(-5000000), Absent, Absent),
      Reading(DateIn(202504), Num(60000), Absent, Absent, Absent, Absent),
      Reading(DateIn(202504), Num(70000), Absent, Absent, Absent, Absent),
      Reading(DateIn(202504), StrBad, Absent, Absent, Absent, Absent),
      Reading(DateIn(202504), Absent, Absent, Absent, Absent, Num(120000)),
      Reading(DateIn(199912), Num(40000), Num(1200000), Absent, Absent, Absent),
      Reading(BadDate, Num(40000), Num(1200000), Absent, Absent, Num(100000)),
      Reading(NoDate, Num(40000), Num(1200000), Absent, Absent, Num(100000)) }

\* site.geom: its shape and the two members of its coordinates array.
\* "absent": no geom; "unparseable": a string that is not JSON; "notPoint": a
\* geometry of another type; "shortPoint": a Point whose coordinates array has
\* not two members; "point": a Point object; "pointString": a Point as JSON text
Geom(shape, c0, c1) == [shape |-> shape, c0 |-> c0, c1 |-> c1]
NoGeom == Geom("absent", Null, Null)
PointGeom == Geom("point", Num(-1127000), Num(414000))
NullPoint == Geom("point", Null, Null)

\* A site record: its identifier, its geometry, and the shape of site.readings
\* ("array": an array of reading objects; "withNull": an array holding a null
\* entry; "missing": no array).  isNull: the entry of the feed is null.
Site(id, geom, readings) ==
    [isNull |-> FALSE, id |-> id, geom |-> geom, utmeasting |-> Absent,
     utmnorthing |-> Absent, readings |-> readings]
NullSite == [Site("", NoGeom, "missing") EXCEPT !.isNull = TRUE]

SiteUniverse ==
    { Site("RD2", PointGeom, "array"), Site("RD2", PointGeom, "withNull"),
      Site("RD2", NullPoint, "array"),
      Site("AC3", NoGeom, "array"), Site("AC3", NoGeom, "withNull"),
      Site("AC3", NoGeom, "missing"), Site("XX", PointGeom, "array"),
      NullSite }

Feeds == UNION { [1..n -> SiteUniverse] : n \in 0..MaxSites }

\* new Date(): the current year and month
NowChoices == {202504, 202611}

-----------------------------------------------------------------------------
(* Helpers of DataLoader.js *)

\* getHardcodedTemperatureData(), inside the calendar window, in key order
TemperatureTable == <<[ym |-> 200001, temp |-> 35100], [ym |-> 202503, temp |-> 45600]>>

\* processTemperatureData: add the table's months, let its values override
RECURSIVE TableTimePoints(_, _)
TableTimePoints(tps, i) ==
    IF i > Len(TemperatureTable) THEN tps
    ELSE TableTimePoints(
            IF TemperatureTable[i].ym >= MIN_DATE
               THEN AddUnique(tps, TemperatureTable[i].ym) ELSE tps,
            i + 1)

TableTemps ==
    [ym \in {TemperatureTable[i].ym : i \in {j \in 1..Len(TemperatureTable) :
                                             TemperatureTable[j].ym >= MIN_DATE}}
        |-> Num((CHOOSE e \in Range(TemperatureTable) : e.ym = ym).temp)]

processTemperatureData(existingTimePoints, existingTempData) ==
    [timePoints |-> Sort(TableTimePoints(existingTimePoints, 1)),
     temperatureData |-> TableTemps @@ existingTempData]

\* proj4(utmZone12N, wgs84, [easting, northing]) near the lake: metres east of
\* the central meridian (111 W) at 8.4 m, metres north of the equator at
\* 11.1 m per 1e-4 degree
proj4(easting, northing) ==
    <<-1110000 + ((easting - 500000) * 10) \div 84, (northing * 10) \div 111>>

\* processSiteCoordinates: the embedded point geometry, else the UTM pair, else
\* the default coordinate (longitude, latitude in 1e-4 degrees)
processSiteCoordinates(site) ==
    LET isPoint == site.geom.shape \in {"point", "pointString"}
        easting == parseFloat(site.utmeasting)
        northing == parseFloat(site.utmnorthing)
        isUtm == /\ ~isPoint
                 /\ site.utmeasting.k \notin {"absent", "null"}
                 /\ site.utmnorthing.k \notin {"absent", "null"}
                 /\ IsNum(easting) /\ IsNum(northing)
    IN  IF isPoint
        THEN [id |-> site.id, longitude |-> site.geom.c0, latitude |-> site.geom.c1,
              coordsSource |-> "geom"]
        ELSE IF isUtm
        THEN [id |-> site.id, longitude |-> Num(proj4(easting.v, northing.v)[1]),
              latitude |-> Num(proj4(easting.v, northing.v)[2]),
              coordsSource |-> "utm"]
        ELSE [id |-> site.id, longitude |-> Num(-1125000), latitude |-> Num(410000),
              coordsSource |-> "none"]

\* x !== undefined && x !== null
Present(x) == x.k \notin {"absent", "null"}

\* extractDensityValue: null when no candidate field is numeric
\* the values of the keys of a reading that include "LABminusDEN", in key
\* order: lab is the exactly named field, labLike the other fields of such
\* a name, labFirst tells whether the exactly named key comes first
LabKeys(reading) ==
    LET exact == IF reading.lab = Absent THEN <<>> ELSE <<reading.lab>>
    IN  IF reading.labFirst THEN exact \o reading.labLike
        ELSE reading.labLike \o exact

\* Object.keys(reading).find(...): the first such key, or undefined
FindDensityKey(reading) ==
    IF LabKeys(reading) = <<>> THEN Absent ELSE Head(LabKeys(reading))

extractDensityValue(reading) ==
    IF Present(reading.lab) /\ IsNum(parseFloat(reading.lab))
    THEN parseFloat(reading.lab)
    ELSE IF Present(FindDensityKey(reading)) /\ IsNum(parseFloat(FindDensityKey(reading)))
    THEN parseFloat(FindDensityKey(reading))
    ELSE IF Present(reading.density) /\ IsNum(parseFloat(reading.density))
    THEN parseFloat(reading.density)
    ELSE IF Present(reading.salinity) /\ IsNum(parseFloat(reading.salinity))
    THEN Num(1000000 + (parseFloat(reading.salinity).v * 4) \div 5)
    ELSE Null

\* extractSalinityValue
extractSalinityValue(reading) ==
    IF Present(reading.salinityEOS) /\ IsNum(parseFloat(reading.salinityEOS))
    THEN parseFloat(reading.salinityEOS)
    ELSE IF Present(reading.salinity) /\ IsNum(parseFloat(reading.salinity))
    THEN parseFloat(reading.salinity)
    ELSE Null

\* the date check without the comparison against MIN_DATE
AnyParseableDate(date) == date.kind = "valid"

\* isDateOnOrAfter2000
isDateOnOrAfter2000(date) == date.kind = "valid" /\ date.ym >= MIN_DATE

\* the filter of site.readings: reading.date && isDateOnOrAfter2000(reading.date)
KeepReading(reading) == reading.date.kind # "missing" /\ isDateOnOrAfter2000(reading.date)

\* JavaScript coercions of a tempLookup entry (a number, NaN, or a list of raw
\* temperatures that was never averaged)
TempList(l) == [k |-> "list", v |-> 0, l |-> l]

Truthy(t) == IF t.k = "list" THEN TRUE ELSE t.k = "num" /\ t.v # 0

ToNumber(t) ==
    IF t.k = "num" THEN t
    ELSE IF t.k = "list"
    THEN IF Len(t.l) = 0 THEN Num(0)
         ELSE IF Len(t.l) = 1 THEN parseFloat(t.l[1])
         ELSE NaN
    ELSE NaN

\* temps.reduce((a, b) => a + b, 0) / temps.length
RECURSIVE SumTemps(_)
SumTemps(l) == IF l = <<>> THEN 0 ELSE Head(l).v + SumTemps(Tail(l))

Average(l) ==
    IF \A i \in 1..Len(l) : l[i].k = "num"
    THEN Num(SumTemps(l) \div Len(l))
    ELSE NaN

LastIndex(stations, id) ==
    CHOOSE i \in 1..Len(stations) :
        /\ stations[i].id = id
        /\ \A j \in (i + 1)..Len(stations) : stations[j].id # id

PositionOf(tps, ym) == CHOOSE p \in 1..Len(tps) : tps[p] = ym

StationIds(stations) == {stations[i].id : i \in 1..Len(stations)}

\* One value of generateMockDensityForStations: temp is temperatureData[yearMonth]
\* (Absent when undefined), index the 0-based station index, random the draw
MockDensityValue(temp, ym, index, count, random) ==
    LET tempNumber == ToNumber(temp)
        useTemp == temp.k # "absent" /\ Truthy(temp)
        tempFactor == IF useTemp THEN ((tempNumber.v - 30000) * 3) \div 5 ELSE 0
        yearFactor == (YearOf(ym) - 2000) * 500
        seasonalFactor == SinMicro(MonthOf(ym)) \div 100
        stationFactor == (index * 50000) \div count
        randomFactor == (random - 500) * 15
        baseDensity == 1100000 + tempFactor + yearFactor + seasonalFactor
                           + stationFactor + randomFactor
    IN  IF useTemp /\ ~IsNum(tempNumber) THEN NaN
        ELSE Num(Clamp(DENSITY_MIN, DENSITY_MAX, baseDensity))

\* One value of generateMockSalinityForStations
MockSalinityValue(temp, ym, index, count, random) ==
    LET tempNumber == ToNumber(temp)
        useTemp == temp.k # "absent" /\ Truthy(temp)
        tempFactor == IF useTemp THEN 0 - ((tempNumber.v - 50000) \div 5) ELSE 0
        yearFactor == (YearOf(ym) - 2000) * 100
        seasonalFactor == 0 - ((SinMicro(MonthOf(ym)) * 15) \div 1000)
        stationFactor == (index * 30000) \div count
        randomFactor == (random - 500) * 20
        salinity == 150000 + tempFactor + yearFactor + seasonalFactor
                        + stationFactor + randomFactor
    IN  IF useTemp /\ ~IsNum(tempNumber) THEN NaN
        ELSE Num(Clamp(SALINITY_MIN, SALINITY_MAX, salinity))

TempAt(temperatureData, ym) ==
    IF ym \in DOMAIN temperatureData THEN temperatureData[ym] ELSE Absent

\* generateMockDensityForStations; first is the number of Math.random() draws
\* made before the call
generateMockDensityForStations(stations, tps, temperatureData, seed, first) ==
    [ym \in Range(tps) |->
        [id \in StationIds(stations) |->
            LET i == LastIndex(stations, id)
                n == first + (PositionOf(tps, ym) - 1) * Len(stations) + (i - 1)
            IN  MockDensityValue(TempAt(temperatureData, ym), ym, i - 1,
                                 Len(stations), Random(seed, n))]]

\* generateMockSalinityForStations
generateMockSalinityForStations(stations, tps, temperatureData, seed, first) ==
    [ym \in Range(tps) |->
        [id \in StationIds(stations) |->
            LET i == LastIndex(stations, id)
                n == first + (PositionOf(tps, ym) - 1) * Len(stations) + (i - 1)
            IN  MockSalinityValue(TempAt(temperatureData, ym), ym, i - 1,
                                  Len(stations), Random(seed, n))]]

\* a supplement loop without the "=== undefined" test
SupplementOverwrite(lookup, synthetic, stations, tps) ==
    [ym \in DOMAIN lookup \cup Range(tps) |->
        IF ym \notin Range(tps) THEN lookup[ym]
        ELSE [id \in (IF ym \in DOMAIN lookup THEN DOMAIN lookup[ym] ELSE {})
                     \cup StationIds(stations) |->
                IF id \in StationIds(stations) THEN synthetic[ym][id]
                ELSE lookup[ym][id]]]

\* The supplement loops of loadSiteAndTempData: fill what is still undefined
Supplement(lookup, synthetic, stations, tps) ==
    [ym \in DOMAIN lookup \cup Range(tps) |->
        IF ym \notin Range(tps) THEN lookup[ym]
        ELSE [id \in (IF ym \in DOMAIN lookup THEN DOMAIN lookup[ym] ELSE {})
                     \cup StationIds(stations) |->
                IF Has2(lookup, ym, id) THEN lookup[ym][id]
                ELSE synthetic[ym][id]]]

\* calculateRange; one is the number 1 in the lookup's unit
NumericValues(dataLookup) ==
    {dataLookup[ym][id].v : <<ym, id>> \in
        {p \in UNION {{<<m, i>> : i \in DOMAIN dataLookup[m]} : m \in DOMAIN dataLookup} :
            IsNum(dataLookup[p[1]][p[2]])}}

Min(S) == CHOOSE x \in S : \A y \in S : x <= y
Max(S) == CHOOSE x \in S : \A y \in S : x >= y
Max0(x) == IF x < 0 THEN 0 ELSE x

calculateRange(dataLookup, one) ==
    LET allValues == NumericValues(dataLookup)
    IN  IF allValues = {} THEN <<0, one>>
        ELSE LET minVal == Min(allValues)
                 maxVal == Max(allValues)
                 padding == IF maxVal = minVal THEN (maxVal * 2) \div 100
                            ELSE ((maxVal - minVal) * 2) \div 100
                 lo == Max0(minVal - padding)
                 hi == maxVal + padding
             IN  IF lo >= hi
                 THEN <<Max0((lo * 9) \div 10),
                        IF (hi * 11) \div 10 = 0 THEN one \div 10 ELSE (hi * 11) \div 10>>
                 ELSE <<lo, hi>>

\* finalDensityRange / finalSalinityRange
FinalRange(range, one, default) == IF range = <<0, one>> THEN default ELSE range

-----------------------------------------------------------------------------
(* loadSiteAndTempData *)

IsAllowed(site) == site.id \in Range(ALLOWED_SITES)

\* the filter of the processed stations: st.longitude != null && st.latitude != null
HasPosition(st) ==
    st.longitude.k \notin {"absent", "null"} /\ st.latitude.k \notin {"absent", "null"}

\* sitesJson.map(processSiteCoordinates).filter(...)
PositionedStations(sites) ==
    SelectSeq([i \in 1..Len(sites) |-> processSiteCoordinates(sites[i])], HasPosition)

\* the first test of the forEach over the sites:
\* processedStations.some(ps => ps.id === stationId)
IsProcessed(stations, site) == site.id \in StationIds(stations)

\* The mock stations of the fallback branches, on a circle around the default
\* coordinate (0.2 * cos and 0.2 * sin of index / 9 * 2 * PI, in 1e-4 degrees)
CircleCos == <<2000, 1532, 347, -1000, -1879, -1879, -1000, 347, 1532>>
CircleSin == <<0, 1286, 1970, 1732, 684, -684, -1732, -1970, -1286>>
\* a station list that is empty
NoStations == <<>>

MockStations ==
    [i \in 1..Len(ALLOWED_SITES) |->
        [id |-> ALLOWED_SITES[i], longitude |-> Num(-1125000 + CircleCos[i]),
         latitude |-> Num(410000 + CircleSin[i]), coordsSource |-> "mock"]]

\* The mockTimePoints loops: for y = startYear .. endYear, for m = 1 .. mLimit,
\* keeping the months inside the calendar window
MonthsOfYear(y, mLimit) ==
    SelectSeq([m \in 1..12 |-> y * 100 + m],
              LAMBDA ym : MonthOf(ym) <= mLimit /\ ym \in CalendarWindow)

RECURSIVE MockMonths(_, _, _)
MockMonths(y, endYear, endMonth) ==
    IF y > endYear THEN <<>>
    ELSE MonthsOfYear(y, IF y = endYear THEN endMonth ELSE 12)
         \o MockMonths(y + 1, endYear, endMonth)

MonthsUpTo(endYear, endMonth) == MockMonths(2000, endYear, endMonth)

\* the outer catch: endYear is 2025, the months of 2025 stop at the current month
OuterCatchTimePoints(now) == MonthsUpTo(2025, MonthOf(now))

OuterCatchResults == {OuterCatchTimePoints(now) : now \in NowChoices}

\* allTimePoints.push(...mockTimePoints.filter(tp => !allTimePoints.includes(tp)));
\* allTimePoints.sort()
RECURSIVE PushMissing(_, _)
PushMissing(tps, mock) ==
    IF mock = <<>> THEN tps
    ELSE PushMissing(IF Head(mock) \in Range(tps) THEN tps ELSE Append(tps, Head(mock)),
                     Tail(mock))

\* the time points without the generated months
KeepTimePoints(tps, mock) == tps

MergeMockTimePoints(tps, mock) == Sort(PushMissing(tps, mock))

\* tempLookup[tp] = 50 + sin(...) * 25 + (y - startYear) * 0.2 + (random - 0.5) * 5
MockTemperature(ym, random) ==
    Num(50000 + (SinMicro(MonthOf(ym)) * 25) \div 1000 + (YearOf(ym) - 2000) * 200
        + (random - 500) * 5)

FillTemperatures(lookup, tps, seed) ==
    [ym \in DOMAIN lookup \cup Range(tps) |->
        IF ym \in DOMAIN lookup /\ (ym \notin Range(tps) \/ Truthy(lookup[ym]))
        THEN lookup[ym]
        ELSE MockTemperature(ym, Random(seed, PositionOf(tps, ym) - 1))]

LoaderInit ==
    /\ pc = "fetch"
    /\ sitesJson = <<>>
    /\ siteIdx = 0
    /\ readIdx = 0
    /\ processedStations = <<>>
    /\ tempLookup = EmptyMap
    /\ densityLookup = EmptyMap
    /\ salinityLookup = EmptyMap
    /\ timePoints = <<>>
    /\ hasRealDensity = FALSE
    /\ hasRealSalinity = FALSE
    /\ usingMockData = FALSE
    /\ errorMessage = "null"
    /\ dataRanges = [density |-> <<0, 0>>, salinity |-> <<0, 0>>]
    /\ path = "none"
    /\ realDensity = {}
    /\ realSalinity = {}
    /\ feedMonths = {}
    /\ sawBadDate = FALSE

\* fetch rejects (network error, timeout) or response.json() rejects
FetchFails ==
    /\ pc = "fetch"
    /\ UNCHANGED besidesLoader
    /\ errorMessage' = "Error fetching from API"
    /\ pc' = "history"
    /\ UNCHANGED <<sitesJson, siteIdx, readIdx, processedStations, tempLookup,
                   densityLookup, salinityLookup, timePoints, hasRealDensity,
                   hasRealSalinity, usingMockData, dataRanges, path, realDensity,
                   realSalinity, feedMonths, sawBadDate>>

\* response.ok is false
FetchNotOk ==
    /\ pc = "fetch"
    /\ UNCHANGED besidesLoader
    /\ errorMessage' = "API fetch failed"
    /\ pc' = "history"
    /\ UNCHANGED <<sitesJson, siteIdx, readIdx, processedStations, tempLookup,
                   densityLookup, salinityLookup, timePoints, hasRealDensity,
                   hasRealSalinity, usingMockData, dataRanges, path, realDensity,
                   realSalinity, feedMonths, sawBadDate>>

\* response.ok: the allowed-site filter and processSiteCoordinates; a null
\* entry makes the filter callback throw into catch (apiError)
FetchOk ==
    /\ pc = "fetch"
    /\ UNCHANGED besidesLoader
    /\ \E feed \in Feeds :
        IF \E i \in 1..Len(feed) : feed[i].isNull
        THEN /\ sitesJson' = feed
             /\ errorMessage' = "Error fetching from API"
             /\ pc' = "history"
             /\ UNCHANGED <<processedStations, siteIdx>>
        ELSE LET filteredSites == SelectSeq(feed, IsAllowed)
             IN  /\ sitesJson' = filteredSites
                 /\ processedStations' = PositionedStations(filteredSites)
                 /\ IF Len(PositionedStations(filteredSites)) > 0
                    THEN pc' = "sites" /\ siteIdx' = 1
                    ELSE pc' = "history" /\ siteIdx' = siteIdx
                 /\ UNCHANGED errorMessage
    /\ UNCHANGED <<readIdx, tempLookup, densityLookup, salinityLookup, timePoints,
                   hasRealDensity, hasRealSalinity, usingMockData, dataRanges, path,
                   realDensity, realSalinity, feedMonths, sawBadDate>>

\* sitesJson.forEach: a site without a readings array is passed over
SiteSkipped ==
    /\ pc = "sites"
    /\ UNCHANGED besidesLoader
    /\ siteIdx <= Len(sitesJson)
    /\ \/ ~IsProcessed(processedStations, sitesJson[siteIdx])
       \/ sitesJson[siteIdx].readings = "missing"
    /\ siteIdx' = siteIdx + 1
    /\ UNCHANGED <<pc, sitesJson, readIdx, processedStations, tempLookup,
                   densityLookup, salinityLookup, timePoints, hasRealDensity,
                   hasRealSalinity, usingMockData, errorMessage, dataRanges, path,
                   realDensity, realSalinity, feedMonths, sawBadDate>>

\* site.readings.filter(reading => reading.date && ...) on an array with a null
\* entry throws before any reading of the site is handled; the error leaves the
\* forEach and is caught by catch (apiError)
SiteThrows ==
    /\ pc = "sites"
    /\ UNCHANGED besidesLoader
    /\ siteIdx <= Len(sitesJson)
    /\ IsProcessed(processedStations, sitesJson[siteIdx])
    /\ sitesJson[siteIdx].readings = "withNull"
    /\ errorMessage' = "Error fetching from API"
    /\ pc' = "history"
    /\ UNCHANGED <<sitesJson, siteIdx, readIdx, processedStations, tempLookup,
                   densityLookup, salinityLookup, timePoints, hasRealDensity,
                   hasRealSalinity, usingMockData, dataRanges, path, realDensity,
                   realSalinity, feedMonths, sawBadDate>>

SiteReadings ==
    /\ pc = "sites"
    /\ UNCHANGED besidesLoader
    /\ siteIdx <= Len(sitesJson)
    /\ IsProcessed(processedStations, sitesJson[siteIdx])
    /\ sitesJson[siteIdx].readings = "array"
    /\ pc' = "readings"
    /\ readIdx' = 0
    /\ UNCHANGED <<sitesJson, siteIdx, processedStations, tempLookup,
                   densityLookup, salinityLookup, timePoints, hasRealDensity,
                   hasRealSalinity, usingMockData, errorMessage, dataRanges, path,
                   realDensity, realSalinity, feedMonths, sawBadDate>>

\* One reading of the current site: the filter, then the forEach body.  The
\* filter is pure, so filtering the whole array first and handling the kept
\* readings afterwards equals handling the readings one by one.
ProcessReading ==
    /\ pc = "readings"
    /\ UNCHANGED besidesLoader
    /\ readIdx < MaxReadings
    /\ \E reading \in ReadingUniverse :
        LET stationId == sitesJson[siteIdx].id
            yearMonth == reading.date.ym
            extract == KeepReading(reading) /\ reading.date.kind = "valid"
            densityValue == extractDensityValue(reading)
            salinityValue == extractSalinityValue(reading)
        IN  /\ sawBadDate' = (sawBadDate \/ reading.date.kind # "valid"
                                         \/ reading.date.ym < 200001)
            /\ feedMonths' = IF reading.date.kind = "valid" /\ reading.date.ym >= 200001
                             THEN feedMonths \cup {reading.date.ym} ELSE feedMonths
            /\ IF extract
               THEN /\ timePoints' = AddUnique(timePoints, yearMonth)
                    /\ tempLookup' =
                         IF Present(reading.temperature)
                         THEN (yearMonth :> TempList(Append(
                                    IF yearMonth \in DOMAIN tempLookup
                                    THEN tempLookup[yearMonth].l ELSE <<>>,
                                    reading.temperature))) @@ tempLookup
                         ELSE tempLookup
                    /\ IF densityValue.k # "null"
                       THEN /\ hasRealDensity' = TRUE
                            /\ densityLookup' = Put2(densityLookup, yearMonth,
                                                     stationId, densityValue)
                            /\ realDensity' = realDensity \cup
                                   {<<yearMonth, stationId, densityValue>>}
                       ELSE UNCHANGED <<hasRealDensity, densityLookup, realDensity>>
                    /\ IF salinityValue.k # "null"
                       THEN /\ hasRealSalinity' = TRUE
                            /\ salinityLookup' = Put2(salinityLookup, yearMonth,
                                                      stationId, salinityValue)
                            /\ realSalinity' = realSalinity \cup
                                   {<<yearMonth, stationId, salinityValue>>}
                       ELSE UNCHANGED <<hasRealSalinity, salinityLookup, realSalinity>>
               ELSE UNCHANGED <<timePoints, tempLookup, hasRealDensity, densityLookup,
                                realDensity, hasRealSalinity, salinityLookup,
                                realSalinity>>
    /\ readIdx' = readIdx + 1
    /\ UNCHANGED <<pc, sitesJson, siteIdx, processedStations, usingMockData,
                   errorMessage, dataRanges, path>>

\* the site's array is exhausted
EndReadings ==
    /\ pc = "readings"
    /\ UNCHANGED besidesLoader
    /\ pc' = "sites"
    /\ siteIdx' = siteIdx + 1
    /\ UNCHANGED <<sitesJson, readIdx, processedStations, tempLookup,
                   densityLookup, salinityLookup, timePoints, hasRealDensity,
                   hasRealSalinity, usingMockData, errorMessage, dataRanges, path,
                   realDensity, realSalinity, feedMonths, sawBadDate>>

\* "Average temps", reached only when the forEach completed
AverageTemps ==
    /\ pc = "sites"
    /\ UNCHANGED besidesLoader
    /\ siteIdx > Len(sitesJson)
    /\ tempLookup' = [ym \in DOMAIN tempLookup |-> Average(tempLookup[ym].l)]
    /\ pc' = "history"
    /\ UNCHANGED <<sitesJson, siteIdx, readIdx, processedStations,
                   densityLookup, salinityLookup, timePoints, hasRealDensity,
                   hasRealSalinity, usingMockData, errorMessage, dataRanges, path,
                   realDensity, realSalinity, feedMonths, sawBadDate>>

\* processTemperatureData, then "Filter and sort time points"
ProcessHistory ==
    /\ pc = "history"
    /\ UNCHANGED besidesLoader
    /\ LET tempResult == processTemperatureData(timePoints, tempLookup)
       IN  /\ tempLookup' = tempResult.temperatureData
           /\ timePoints' = Sort(SelectSeq(tempResult.timePoints,
                                           LAMBDA ym : YearOf(ym) >= 2000))
    /\ pc' = "reconcile"
    /\ UNCHANGED <<sitesJson, siteIdx, readIdx, processedStations,
                   densityLookup, salinityLookup, hasRealDensity,
                   hasRealSalinity, usingMockData, errorMessage, dataRanges, path,
                   realDensity, realSalinity, feedMonths, sawBadDate>>

\* "Generate/Supplement Density & Salinity"
Reconcile ==
    /\ pc = "reconcile"
    /\ UNCHANGED besidesLoader
    /\ Len(processedStations) > 0 /\ Len(timePoints) > 0
    /\ \E seed \in Seeds :
        LET draws == Len(timePoints) * Len(processedStations)
            syntheticDensity == generateMockDensityForStations(
                processedStations, timePoints, tempLookup, seed, 0)
            syntheticSalinity == generateMockSalinityForStations(
                processedStations, timePoints, tempLookup, seed, draws)
        IN  /\ densityLookup' =
                 IF ~hasRealDensity THEN syntheticDensity
                 ELSE Supplement(densityLookup, syntheticDensity,
                                 processedStations, timePoints)
            /\ salinityLookup' =
                 IF ~hasRealSalinity THEN syntheticSalinity
                 ELSE Supplement(salinityLookup, syntheticSalinity,
                                 processedStations, timePoints)
    /\ usingMockData' = ~hasRealDensity
    /\ path' = "reconciled"
    /\ pc' = "ranges"
    /\ UNCHANGED <<sitesJson, siteIdx, readIdx, processedStations, tempLookup,
                   timePoints, hasRealDensity, hasRealSalinity, errorMessage,
                   dataRanges, realDensity, realSalinity, feedMonths, sawBadDate>>

\* "Handle complete mock data generation if necessary"
FullSynthetic ==
    /\ pc = "reconcile"
    /\ UNCHANGED besidesLoader
    /\ Len(processedStations) = 0 \/ Len(timePoints) = 0
    /\ \E now \in NowChoices, seed \in Seeds :
        LET mockTimePoints == MonthsUpTo(YearOf(now), MonthOf(now))
            allTimePoints == MergeMockTimePoints(timePoints, mockTimePoints)
            temps == FillTemperatures(tempLookup, allTimePoints, seed)
            draws == Len(allTimePoints)
        IN  /\ timePoints' = allTimePoints
            /\ tempLookup' = temps
            /\ densityLookup' = generateMockDensityForStations(
                    MockStations, allTimePoints, temps, seed, draws)
            /\ salinityLookup' = generateMockSalinityForStations(
                    MockStations, allTimePoints, temps, seed,
                    draws + Len(allTimePoints) * Len(MockStations))
    /\ processedStations' = MockStations
    /\ usingMockData' = TRUE
    /\ errorMessage' = IF errorMessage = "null" THEN "Data unavailable" ELSE errorMessage
    /\ path' = "fullSynthetic"
    /\ pc' = "ranges"
    /\ UNCHANGED <<sitesJson, siteIdx, readIdx, hasRealDensity, hasRealSalinity,
                   dataRanges, realDensity, realSalinity, feedMonths, sawBadDate>>

\* calculateRange for both variables and the return
Return ==
    /\ pc = "ranges"
    /\ UNCHANGED besidesLoader
    /\ dataRanges' =
        [density |-> FinalRange(calculateRange(densityLookup, 1000000), 1000000,
                                <<1000000, 1250000>>),
         salinity |-> FinalRange(calculateRange(salinityLookup, 1000), 1000,
                                 <<50000, 250000>>)]
    /\ pc' = "done"
    /\ UNCHANGED <<sitesJson, siteIdx, readIdx, processedStations, tempLookup,
                   densityLookup, salinityLookup, timePoints, hasRealDensity,
                   hasRealSalinity, usingMockData, errorMessage, path,
                   realDensity, realSalinity, feedMonths, sawBadDate>>

Next ==
    \/ FetchFails
    \/ FetchNotOk
    \/ FetchOk
    \/ SiteSkipped
    \/ SiteThrows
    \/ SiteReadings
    \/ ProcessReading
    \/ EndReadings
    \/ AverageTemps
    \/ ProcessHistory
    \/ Reconcile
    \/ FullSynthetic
    \/ Return

-----------------------------------------------------------------------------
(* Floating point *)

\* A double is modelled with MantissaBits bits of precision (53 in the
\* program): <<m, e>> is m * 2^e with 2^(MantissaBits-1) <= m < 2^MantissaBits,
\* and <<0, 0>> is zero.  Every operation returns the exact result rounded to
\* nearest, ties to even, as IEEE 754 does.
MantissaBits == 6

RECURSIVE Pow2(_)
Pow2(k) == IF k <= 0 THEN 1 ELSE 2 * Pow2(k - 1)

Zero == <<0, 0>>

MantissaLow == Pow2(MantissaBits - 1)
MantissaHigh == Pow2(MantissaBits)

RECURSIVE Normalize(_, _, _)
Normalize(n, d, e) ==
    IF n >= d * MantissaHigh THEN Normalize(n, 2 * d, e + 1)
    ELSE IF n < d * MantissaLow THEN Normalize(2 * n, d, e - 1)
    ELSE <<n, d, e>>

\* n / d with MantissaLow <= n / d < MantissaHigh, to the nearest integer
RoundToEven(n, d) ==
    IF 2 * (n % d) > d \/ (2 * (n % d) = d /\ (n \div d) % 2 = 1)
    THEN (n \div d) + 1
    ELSE n \div d

Renormalize(m, e) == IF m = MantissaHigh THEN <<MantissaLow, e + 1>> ELSE <<m, e>>

RoundNormalized(t) == Renormalize(RoundToEven(t[1], t[2]), t[3])

\* the double nearest to (n / d) * 2^e0, for n >= 0 and d > 0
RoundRatio(n, d, e0) == IF n = 0 THEN Zero ELSE RoundNormalized(Normalize(n, d, e0))

FMul(a, b) == RoundRatio(a[1] * b[1], 1, a[2] + b[2])

FDiv(a, b) == RoundRatio(a[1], b[1], a[2] - b[2])

FAdd(a, b) ==
    IF a[1] = 0 THEN b
    ELSE IF b[1] = 0 THEN a
    ELSE IF a[2] - b[2] > MantissaBits + 1 THEN a
    ELSE IF b[2] - a[2] > MantissaBits + 1 THEN b
    ELSE LET e == IF a[2] < b[2] THEN a[2] ELSE b[2]
         IN  RoundRatio(a[1] * Pow2(a[2] - e) + b[1] * Pow2(b[2] - e), 1, e)

-----------------------------------------------------------------------------
(* renderHeatmap of HeatmapRenderer.jsx *)

\* Lengths on the map are integers in units of 0.005 px, squared distances in
\* units of 0.000025 px^2; sample positions and cell centres are exact in these
\* units, the weights and the weighted sums are doubles.

MaxStations == 2
GridCols == 2
GridRows == 2

cellSize == 1000
CoincidenceEpsilon == 4


northArmStationIds == <<"RD2", "SJ-1", "RD1", "LVG4">>

\* station ids and coordinates the stations prop is drawn from: "default" is
\* the coordinate processSiteCoordinates gives a site without usable geometry
RenderIds == {"RD2", "SJ-1", "AC3"}
LonLats == {"NaN", "beyondPole", "default", "beside", "edge", "geom"}

StationUniverse == [id : RenderIds, lonlat : LonLats]

\* values of currentDataForTimepoint[station.id]: undefined, NaN or a density
DataValues == {Absent, NaN, Num(RoundRatio(37, 32, 0)), Num(RoundRatio(40, 32, 0))}

StationLists == UNION { [1..n -> StationUniverse] : n \in 0..MaxStations }

\* the Mercator projection fitted to the lake outline, on the coordinates of
\* LonLats: a latitude beyond the pole projects to NaN
projection(lonlat) ==
    CASE lonlat = "default" -> [valid |-> TRUE, x |-> 500, y |-> 500]
      [] lonlat = "beside" -> [valid |-> TRUE, x |-> 501, y |-> 500]
      [] lonlat = "edge" -> [valid |-> TRUE, x |-> 502, y |-> 500]
      [] lonlat = "geom" -> [valid |-> TRUE, x |-> 1200, y |-> 800]
      [] OTHER -> [valid |-> FALSE, x |-> 0, y |-> 0]

SendSouth(id) == FALSE

SendNorth(id) == TRUE

IsNorthArm(id) == id \in Range(northArmStationIds)

Unshift(arr, point) == <<point>> \o arr

Push(arr, point) == Append(arr, point)

\* stations.forEach of "Prepare SEPARATE Data Points", from station i on;
\* src is the station's index in the list (not a field of the program's point)
RECURSIVE PartitionFrom(_, _, _, _, _)
PartitionFrom(stationList, data, i, north, south) ==
    IF i > Len(stationList) THEN [north |-> north, south |-> south]
    ELSE LET station == stationList[i]
             value == IF station.id \in DOMAIN data THEN data[station.id] ELSE Absent
             projected == projection(station.lonlat)
         IN  IF IsNum(value) /\ station.lonlat # "NaN" /\ projected.valid
             THEN LET point == [x |-> projected.x, y |-> projected.y,
                                value |-> value.v, src |-> i]
                  IN  IF IsNorthArm(station.id)
                      THEN PartitionFrom(stationList, data, i + 1,
                                         Push(north, point), south)
                      ELSE PartitionFrom(stationList, data, i + 1,
                                         north, Push(south, point))
             ELSE PartitionFrom(stationList, data, i + 1, north, south)

DistanceSq(x, y, point) == (x - point.x) * (x - point.x) + (y - point.y) * (y - point.y)

AtMostEpsilon(distanceSq) == distanceSq <= CoincidenceEpsilon

IsExactMatch(distanceSq) == distanceSq < CoincidenceEpsilon

\* 1 / Math.pow(distanceSq, power / 2) with power = 2
Weight(distanceSq) == RoundRatio(1, distanceSq, 0)

\* the for...of loop of idw from sample i on
RECURSIVE IdwLoop(_, _, _, _, _, _)
IdwLoop(x, y, points, i, numerator, denominator) ==
    IF i > Len(points)
    THEN [exactMatch |-> FALSE, value |-> Zero,
          numerator |-> numerator, denominator |-> denominator]
    ELSE LET distanceSq == DistanceSq(x, y, points[i])
         IN  IF IsExactMatch(distanceSq)
             THEN [exactMatch |-> TRUE, value |-> points[i].value,
                   numerator |-> numerator, denominator |-> denominator]
             ELSE LET weight == Weight(distanceSq)
                  IN  IdwLoop(x, y, points, i + 1,
                              FAdd(numerator, FMul(points[i].value, weight)),
                              FAdd(denominator, weight))

ReturnNumerator(numerator, denominator) == Num(numerator)

\* denominator === 0 ? null : numerator / denominator
Quotient(numerator, denominator) ==
    IF denominator = Zero THEN Null ELSE Num(FDiv(numerator, denominator))

\* an interpolation that is undefined everywhere
UndefinedEverywhere(x, y, points) == Null

idw(x, y, points) ==
    LET loop == IdwLoop(x, y, points, 1, Zero, Zero)
    IN  IF loop.exactMatch THEN Num(loop.value)
        ELSE Quotient(loop.numerator, loop.denominator)

\* centre of the raster cell (col, row)
CellCentre(i) == i * cellSize + cellSize \div 2

NotDrawn == [k |-> "none", v |-> 0]

\* the loop variables before the grid loop and after it
NoCell ==
    [x |-> 0, y |-> 0, north |-> NotDrawn, south |-> NotDrawn,
     painted |-> [north |-> FALSE, south |-> FALSE]]

\* a grid loop that fills no cell
PaintNothing(interpolated) == FALSE

\* interpolatedNorth !== null: fillRect on the region's canvas
Painted(interpolated) == interpolated # Null

\* the cell centre lies inside the path of the clip path.  The arms of the
\* boundary feed lie one above the other; every other feature (the simplified
\* polygon) is taken to cover the grid
InsideClipPath(clipId, col, row) ==
    IF "north" \in Range(clipId) THEN row = 0
    ELSE IF "south" \in Range(clipId) THEN row = GridRows - 1
    ELSE TRUE

\* a boundary geometry: properties.name of each feature, lower case, as the
\* words between its non-alphanumeric characters (<<>> for a feature without
\* a name); isNull: no geometry
LakeData(features) == [isNull |-> FALSE, features |-> features]
NoLakeData == [isNull |-> TRUE, features |-> <<>>]

\* the geometry of the boundary feed
FeedGeoJson == LakeData(<< <<"north", "arm">>, <<"south", "arm">> >>)

\* createSimpleGeoJSON: one polygon feature with empty properties
createSimpleGeoJSON == LakeData(<< <<>> >>)

LakeDataProps == {NoLakeData, FeedGeoJson, createSimpleGeoJSON}

\* the cleaned name of feature number index (0-based):
\* (feature.properties?.name || `feature-${index}`).toLowerCase()...
FeatureName(feature, index) ==
    IF feature = <<>> THEN <<"feature", ToString(index)>> ELSE feature

\* name.includes(word)
NameIncludes(name, word) == word \in Range(name)

\* "1. Define MULTIPLE Clip Paths and identify features": the clip ids of the
\* two arms, <<>> for null
RECURSIVE ClipIdsFrom(_, _, _, _)
ClipIdsFrom(features, i, northClipId, southClipId) ==
    IF i > Len(features) THEN [north |-> northClipId, south |-> southClipId]
    ELSE LET name == FeatureName(features[i], i - 1)
             clipId == <<"lake", "clip">> \o name
         IN  IF NameIncludes(name, "north")
             THEN ClipIdsFrom(features, i + 1, clipId, southClipId)
             ELSE IF NameIncludes(name, "south")
             THEN ClipIdsFrom(features, i + 1, northClipId, clipId)
             ELSE ClipIdsFrom(features, i + 1, northClipId, southClipId)

\* northCellsDrawn, southCellsDrawn after the grid loop
CellsDrawn(points) ==
    Cardinality({c \in (0..(GridCols - 1)) \X (0..(GridRows - 1)) :
                    /\ Len(points) > 0
                    /\ Painted(idw(CellCentre(c[1]), CellCentre(c[2]), points))})

RenderInit ==
    /\ lakeDataProp = NoLakeData
    /\ images = <<>>
    /\ rpc = "props"
    /\ stationsProp = <<>>
    /\ currentDataForTimepoint = EmptyMap
    /\ northDataPoints = <<>>
    /\ southDataPoints = <<>>
    /\ cell = NoCell

\* the component receives its props for one time point
ReceiveProps ==
    /\ rpc = "props"
    /\ UNCHANGED besidesRender
    /\ \E stationList \in StationLists :
        \E data \in [{stationList[i].id : i \in 1..Len(stationList)} -> DataValues] :
            /\ stationsProp' = stationList
            /\ currentDataForTimepoint' = data
    /\ \E lakeData \in LakeDataProps :
        /\ lakeDataProp' = lakeData
        /\ rpc' = IF lakeData.isNull \/ Len(lakeData.features) = 0
                  THEN "skipped" ELSE "partition"
    /\ UNCHANGED <<northDataPoints, southDataPoints, cell, images>>

\* "3. Prepare SEPARATE Data Points"
PartitionStations ==
    /\ rpc = "partition"
    /\ UNCHANGED besidesRender
    /\ LET parts == PartitionFrom(stationsProp, currentDataForTimepoint, 1, <<>>, <<>>)
       IN  /\ northDataPoints' = parts.north
           /\ southDataPoints' = parts.south
    /\ rpc' = "grid"
    /\ UNCHANGED <<stationsProp, currentDataForTimepoint, cell, lakeDataProp, images>>

\* one iteration of the grid loop of "4. Generate Heatmap on SEPARATE Canvases"
InterpolateCell ==
    /\ rpc = "grid"
    /\ UNCHANGED besidesRender
    /\ Len(northDataPoints) > 0 \/ Len(southDataPoints) > 0
    /\ \E col \in 0..(GridCols - 1), row \in 0..(GridRows - 1) :
        LET cellX == CellCentre(col)
            cellY == CellCentre(row)
        IN  cell' = [x |-> cellX, y |-> cellY,
                     north |-> IF Len(northDataPoints) > 0
                               THEN idw(cellX, cellY, northDataPoints)
                               ELSE NotDrawn,
                     south |-> IF Len(southDataPoints) > 0
                               THEN idw(cellX, cellY, southDataPoints)
                               ELSE NotDrawn,
                     painted |->
                        [north |-> /\ Len(northDataPoints) > 0
                                   /\ Painted(idw(cellX, cellY, northDataPoints)),
                         south |-> /\ Len(southDataPoints) > 0
                                   /\ Painted(idw(cellX, cellY, southDataPoints))]]
    /\ UNCHANGED <<rpc, stationsProp, currentDataForTimepoint, northDataPoints,
                   southDataPoints, lakeDataProp, images>>

\* "5. Render Heatmap Images with Clipping", after the grid loop
AppendImages ==
    /\ rpc = "grid"
    /\ UNCHANGED besidesRender
    /\ LET clipIds == ClipIdsFrom(lakeDataProp.features, 1, <<>>, <<>>)
           northImage == IF CellsDrawn(northDataPoints) > 0 /\ clipIds.north # <<>>
                         THEN <<clipIds.north>> ELSE <<>>
           southImage == IF CellsDrawn(southDataPoints) > 0 /\ clipIds.south # <<>>
                         THEN <<clipIds.south>> ELSE <<>>
       IN  images' = northImage \o southImage
    /\ rpc' = "drawn"
    /\ cell' = NoCell
    /\ UNCHANGED <<stationsProp, currentDataForTimepoint, northDataPoints,
                   southDataPoints, lakeDataProp>>

RenderNext ==
    \/ ReceiveProps
    \/ PartitionStations
    \/ InterpolateCell
    \/ AppendImages

-----------------------------------------------------------------------------
(* The helper functions of DataLoader.js, applied to one input at a time *)

\* the members of a coordinates array: a number, a text, null
LongitudeMembers == {Num(-1127000), StrBad, Null}
LatitudeMembers == {Num(414000), StrBad, Null}

GeomUniverse ==
    {Geom(shape, c0, c1) : shape \in {"point", "pointString"},
                           c0 \in LongitudeMembers, c1 \in LatitudeMembers}
    \cup {Geom(shape, Null, Null) :
            shape \in {"absent", "unparseable", "notPoint", "shortPoint"}}

UtmEastings == {Absent, Null, StrBad, StrNum(400000), Num(416000)}
UtmNorthings == {Absent, StrBad, Num(4540000)}

SiteInputs ==
    {[Site(id, geom, "missing") EXCEPT !.utmeasting = e, !.utmnorthing = n] :
        id \in {"RD2", "XX"}, geom \in GeomUniverse,
        e \in UtmEastings, n \in UtmNorthings}

\* the values of a field of a reading: undefined, null, a text, a numeric text,
\* a number
FieldValues == {Absent, Null, StrBad, StrNum(1180000), Num(150000)}

\* values of a further field of a name that includes "LABminusDEN"
LabLikeValues == {Null, StrBad, Num(1100000)}

ReadingInputs ==
    {Reading(NoDate, Absent, lab, density, salinityEOS, salinity) :
        lab \in FieldValues, density \in FieldValues,
        salinityEOS \in FieldValues, salinity \in FieldValues}

Call(fn, arg, result) == [fn |-> fn, arg |-> arg, result |-> result]

\* no helper has been called; each behaviour calls one helper on one argument
HelperInit == call = Call("none", Null, Null)

ApplyProcessSiteCoordinates ==
    /\ call.fn = "none"
    /\ \E site \in SiteInputs :
        call' = Call("processSiteCoordinates", site, processSiteCoordinates(site))
    /\ UNCHANGED besidesHelpers

\* the readings with further fields of a name that includes "LABminusDEN"
DensityInputs ==
    UNION {{[reading EXCEPT !.labLike = like, !.labFirst = first] :
                reading \in {r \in ReadingInputs : r.salinityEOS = Absent},
                first \in IF like = <<>> THEN {TRUE} ELSE BOOLEAN} :
           like \in UNION {[1..n -> LabLikeValues] : n \in 0..MaxLabLike}}

ApplyExtractDensityValue ==
    /\ call.fn = "none"
    /\ \E reading \in ReadingInputs \cup DensityInputs :
        call' = Call("extractDensityValue", reading, extractDensityValue(reading))
    /\ UNCHANGED besidesHelpers

ApplyExtractSalinityValue ==
    /\ call.fn = "none"
    /\ \E reading \in ReadingInputs :
        call' = Call("extractSalinityValue", reading, extractSalinityValue(reading))
    /\ UNCHANGED besidesHelpers

HelperNext ==
    \/ ApplyProcessSiteCoordinates
    \/ ApplyExtractDensityValue
    \/ ApplyExtractSalinityValue

-----------------------------------------------------------------------------
(* The main component: loadData and loadGeoJsonData *)

\* what loadGeoJsonData returns for each outcome of the boundary fetch
GeoJsonResult(outcome) ==
    CASE outcome = "loaded" -> [data |-> FeedGeoJson, error |-> "null"]
      [] outcome = "httpError" ->
            [data |-> NoLakeData, error |-> "HTTP error loading GeoJSON"]
      [] OTHER -> [data |-> NoLakeData, error |-> "Failed to load map outline"]

\* a fallback that is left out
NoFallback(data) == data

\* geoJsonResult.data || createSimpleGeoJSON()
OrSimpleGeoJSON(data) == IF data.isNull THEN createSimpleGeoJSON ELSE data

\* setError(prev => prev ? `${prev}. ${error}` : error): the messages in order
AppendError(prev, error) == IF error = "null" THEN prev ELSE Append(prev, error)

NoResponse == [phase |-> "none", ok |-> FALSE, body |-> "none", outcome |-> "none"]

AppInit ==
    /\ apc = "mount"
    /\ response = NoResponse
    /\ state = [lakeData |-> NoLakeData, stations |-> <<>>, timePoints |-> <<>>,
                currentTimeIndex |-> 0,
                allData |-> [density |-> EmptyMap, salinity |-> EmptyMap,
                             temperature |-> EmptyMap],
                dataRanges |-> [density |-> <<0, 0>>, salinity |-> <<0, 0>>],
                selectedVariable |-> "density", isLoading |-> TRUE,
                playing |-> FALSE, playTimerRef |-> FALSE, error |-> <<>>,
                usingMockData |-> FALSE]

\* the mount effect: loadData runs to the fetch of loadGeoJsonData, which arms
\* the 5 second abort timer
MountEffect ==
    /\ apc = "mount"
    /\ state' = [state EXCEPT !.isLoading = TRUE, !.error = <<>>,
                              !.usingMockData = FALSE]
    /\ response' = [NoResponse EXCEPT !.phase = "pending"]
    /\ apc' = "geoFetch"
    /\ UNCHANGED besidesApp

\* loadGeoJsonData has returned: "1. Load GeoJSON" installs the geometry and
\* the error, and "2." calls loadSiteAndTempData, which runs to its fetch
GeoJsonLoaded(outcome) ==
    /\ state' = [state EXCEPT
                    !.lakeData = OrSimpleGeoJSON(GeoJsonResult(outcome).data),
                    !.error = AppendError(state.error, GeoJsonResult(outcome).error)]
    /\ response' = [NoResponse EXCEPT !.phase = "settled", !.outcome = outcome]
    /\ apc' = "siteLoad"
    /\ UNCHANGED besidesApp

\* the boundary fetch rejects: a network error, or the abort of the timer
\* while no response has arrived
GeoFetchRejects ==
    /\ apc = "geoFetch"
    /\ GeoJsonLoaded("rejected")

\* the response headers arrive: clearTimeout(timeoutId); the body is read
\* next (response.json(), or response.text() when the status is not ok) and
\* it arrives as JSON, arrives as something else, or never arrives
GeoHeadersArrive ==
    /\ apc = "geoFetch"
    /\ \E ok \in BOOLEAN, body \in {"json", "garbage", "stalled"} :
        response' = [response EXCEPT !.phase = "headers", !.ok = ok, !.body = body]
    /\ apc' = "geoBody"
    /\ UNCHANGED <<state, besidesApp>>

\* the body has arrived
GeoBodyRead ==
    /\ apc = "geoBody"
    /\ response.body # "stalled"
    /\ GeoJsonLoaded(IF ~response.ok THEN "httpError"
                     ELSE IF response.body = "json" THEN "loaded" ELSE "badBody")

\* loadSiteAndTempData runs
LoaderStep == apc = "siteLoad" /\ Next

\* loadSiteAndTempData has returned: the rest of "2." and setIsLoading(false)
InstallResult ==
    /\ apc = "siteLoad"
    /\ pc = "done"
    /\ state' = [state EXCEPT
                    !.stations = processedStations,
                    !.timePoints = timePoints,
                    !.allData = [density |-> densityLookup,
                                 salinity |-> salinityLookup,
                                 temperature |-> tempLookup],
                    !.dataRanges = dataRanges,
                    !.selectedVariable = "density",
                    !.currentTimeIndex =
                        IF Len(timePoints) > 0 THEN Len(timePoints) - 1 ELSE 0,
                    !.usingMockData = usingMockData,
                    !.error = AppendError(state.error, errorMessage),
                    !.isLoading = FALSE]
    /\ apc' = "done"
    /\ UNCHANGED <<response, besidesApp>>

AppNext ==
    \/ MountEffect
    \/ GeoFetchRejects
    \/ GeoHeadersArrive
    \/ GeoBodyRead
    \/ LoaderStep
    \/ InstallResult

-----------------------------------------------------------------------------
(* The main component after the load: the controls, the timer, the render *)

\* loadSiteAndTempData while the station endpoint cannot be reached
OfflineLoaderStep ==
    /\ apc = "siteLoad"
    /\ (FetchFails \/ ProcessHistory \/ FullSynthetic \/ Return)

\* a setter that also cuts the time points after the chosen one
CutTimePoints(st, index) ==
    [st EXCEPT !.currentTimeIndex = index,
               !.timePoints = SubSeq(st.timePoints, 1, index + 1)]

\* setCurrentTimeIndex
SetCurrentTimeIndex(st, index) == [st EXCEPT !.currentTimeIndex = index]

\* the controls are enabled: disabled={isLoading || timePoints.length <= 1}
ControlsEnabled == ~state.isLoading /\ Len(state.timePoints) > 1

\* an animation effect that leaves the interval running
KeepInterval(st) == [st EXCEPT !.playTimerRef = TRUE]

\* the animation effect of the render that follows a change of playing or of
\* timePoints.length: its cleanup clears the interval of the render before,
\* and an interval is set when playing.  playTimerRef tells whether an
\* interval is running; React runs the effect before the next tick is due
AnimationEffect(st) == [st EXCEPT !.playTimerRef = st.playing]

\* the values the slider can report: the text of an index, or another text
SliderValues == {StrNum(i) : i \in -1..(MaxSliderIndex + 1)} \cup {StrBad}

\* parseInt(e.target.value, 10)
parseInt(x) == IF x.k \in {"num", "strnum"} THEN Num(x.v) ELSE NaN

\* a slider handler that takes any number as the index
TakeAnyIndex(st, value) ==
    [SetCurrentTimeIndex(st, parseInt(value).v) EXCEPT !.playing = FALSE]

\* handleSliderChange of TimeControls: an index inside the time points is
\* taken and stops the animation, any other value only warns
handleSliderChange(st, value) ==
    LET newIndex == parseInt(value)
    IN  IF IsNum(newIndex) /\ newIndex.v >= 0 /\ newIndex.v < Len(st.timePoints)
        THEN AnimationEffect([SetCurrentTimeIndex(st, newIndex.v)
                                EXCEPT !.playing = FALSE])
        ELSE st

\* togglePlay of TimeControls
TogglePlay ==
    /\ ControlsEnabled
    /\ state' = AnimationEffect([state EXCEPT !.playing = ~state.playing])
    /\ UNCHANGED <<apc, response, besidesApp>>

\* onChange of the slider
SliderChange ==
    /\ ControlsEnabled
    /\ \E value \in SliderValues : state' = handleSliderChange(state, value)
    /\ UNCHANGED <<apc, response, besidesApp>>

\* one tick of the animation interval, which fires while the interval runs
TimerTick ==
    /\ state.playTimerRef
    /\ LET nextIndex == state.currentTimeIndex + 1
       IN  IF nextIndex >= Len(state.timePoints)
           THEN state' = AnimationEffect(
                            [SetCurrentTimeIndex(state, Len(state.timePoints) - 1)
                                EXCEPT !.playing = FALSE])
           ELSE state' = SetCurrentTimeIndex(state, nextIndex)
    /\ UNCHANGED <<apc, response, besidesApp>>

\* onChange of VariableSelector: setSelectedVariable
SelectVariable ==
    /\ ~state.isLoading
    /\ \E variable \in {"density", "salinity"} :
        state' = [state EXCEPT !.selectedVariable = variable]
    /\ UNCHANGED <<apc, response, besidesApp>>

\* the selection a render is made for: currentConfig and currentTimePoint
\* ('' is 0)
Selection(variable, timePoint) == [variable |-> variable, timePoint |-> timePoint]

NoSelection == Selection("none", 0)

\* no render effect has run and nothing is drawn
FrameInit ==
    frame = [deps |-> NoSelection, animationId |-> 0, pending |-> <<>>,
             rendered |-> NoSelection]

\* the selection of the main component's state
CurrentSelection ==
    Selection(state.selectedVariable,
              IF state.currentTimeIndex < Len(state.timePoints)
              THEN state.timePoints[state.currentTimeIndex + 1] ELSE 0)

\* a cleanup that cancels nothing
LeavePending(pending, animationId) == pending

\* cancelAnimationFrame(animationId): the frame of that id is taken off the
\* frames still pending, if it is among them
CancelAnimationFrame(pending, animationId) ==
    SelectSeq(pending, LAMBDA requested : requested.id # animationId)

\* requestAnimationFrame returns an id that no other frame has
NewAnimationId(pending, animationId) ==
    CHOOSE id \in 1..(MaxPendingFrames + 2) :
        /\ id # animationId
        /\ \A i \in 1..Len(pending) : pending[i].id # id
        /\ \A smaller \in 1..(id - 1) :
                \/ smaller = animationId
                \/ \E i \in 1..Len(pending) : pending[i].id = smaller

\* a render of the main component after the selection has changed: the
\* derived state and the props handed to HeatmapRenderer, the cleanup of the
\* render effect of the render before, and the render effect, which requests
\* a frame for renderHeatmap
RenderEffect ==
    /\ ~state.isLoading
    /\ frame.deps # CurrentSelection
    /\ Len(frame.pending) < MaxPendingFrames
    /\ LET currentTimePoint == CurrentSelection.timePoint
           currentVariableData == state.allData[state.selectedVariable]
       IN  currentDataForTimepoint' =
               IF currentTimePoint \in DOMAIN currentVariableData
               THEN currentVariableData[currentTimePoint] ELSE EmptyMap
    /\ lakeDataProp' = state.lakeData
    /\ LET kept == CancelAnimationFrame(frame.pending, frame.animationId)
           animationId == NewAnimationId(kept, frame.animationId)
       IN  frame' =
             IF ~state.lakeData.isNull /\ Len(state.lakeData.features) > 0
             THEN [frame EXCEPT
                     !.deps = CurrentSelection,
                     !.animationId = animationId,
                     !.pending = Append(kept, [id |-> animationId,
                                               selection |-> CurrentSelection])]
             ELSE [frame EXCEPT !.deps = CurrentSelection, !.animationId = 0,
                                !.pending = kept]
    /\ UNCHANGED <<images, rpc, stationsProp, northDataPoints, southDataPoints, cell>>
    /\ UNCHANGED <<loaderVars, helperVars, appVars>>

\* the browser runs the frame requested first: renderHeatmap draws the
\* selection of the render that requested it
AnimationFrame ==
    /\ frame.pending # <<>>
    /\ frame' = [frame EXCEPT !.pending = Tail(frame.pending),
                              !.rendered = Head(frame.pending).selection]
    /\ UNCHANGED <<loaderVars, renderVars, helperVars, appVars>>

UINext ==
    \/ MountEffect
    \/ GeoFetchRejects
    \/ OfflineLoaderStep
    \/ InstallResult
    \/ TogglePlay
    \/ SliderChange
    \/ TimerTick
    \/ SelectVariable
    \/ RenderEffect
    \/ AnimationFrame

-----------------------------------------------------------------------------
(* Specifications *)

Init == LoaderInit /\ RenderInit /\ HelperInit /\ AppInit /\ FrameInit

Spec == Init /\ [][Next]_vars

SpecHelpers == Init /\ [][HelperNext]_vars

SpecApp == Init /\ [][AppNext]_vars

SpecUI == Init /\ [][UINext]_vars

SpecRender == Init /\ [][RenderNext]_vars

-----------------------------------------------------------------------------
(* Properties of loadSiteAndTempData *)

Returned == pc = "done"

StrictlyIncreasing(s) == \A i \in 1..(Len(s) - 1) : s[i] < s[i + 1]

FullCoverage(lookup) ==
    \A ym \in Range(timePoints), id \in StationIds(processedStations) :
        Has2(lookup, ym, id) /\ IsNum(lookup[ym][id])

AllWithin(lookup, lo, hi) ==
    \A ym \in Range(timePoints), id \in StationIds(processedStations) :
        /\ Has2(lookup, ym, id)
        /\ IsNum(lookup[ym][id])
        /\ lo <= lookup[ym][id].v
        /\ lookup[ym][id].v <= hi

\* C1: when the load has returned, every returned station has, at every
\* returned time point, a density and a salinity that is a number (not
\* undefined, not NaN).
C1_NoGaps == Returned => FullCoverage(densityLookup) /\ FullCoverage(salinityLookup)

\* C2: in the returned series every (time point, station) pair for which a real
\* density (salinity) was extracted holds one of the values extracted for that
\* pair, never a synthetic one.
C2_RealDataKept ==
    Returned =>
        /\ \A e \in realDensity :
            /\ Has2(densityLookup, e[1], e[2])
            /\ <<e[1], e[2], densityLookup[e[1]][e[2]]>> \in realDensity
        /\ \A e \in realSalinity :
            /\ Has2(salinityLookup, e[1], e[2])
            /\ <<e[1], e[2], salinityLookup[e[1]][e[2]]>> \in realSalinity

\* C2 witness: a supplemented density series is returned in which a real value
\* sits beside synthetic ones.
C2_Witness ==
    /\ Returned
    /\ path = "reconciled"
    /\ hasRealDensity
    /\ realDensity # {}
    /\ \E ym \in Range(timePoints), id \in StationIds(processedStations) :
        \A e \in realDensity : e[1] # ym \/ e[2] # id

\* C3: a density series synthesized in full (no real density in the feed) has
\* every value in [1.02, 1.28], and a salinity series synthesized in full has
\* every value in [30, 280].
C3_SyntheticWithinBounds ==
    Returned =>
        /\ ~hasRealDensity => AllWithin(densityLookup, DENSITY_MIN, DENSITY_MAX)
        /\ ~hasRealSalinity => AllWithin(salinityLookup, SALINITY_MIN, SALINITY_MAX)

\* C4: the returned timePoints list is strictly increasing (hence without
\* duplicates), and so is the list the outer catch builds.
C4_TimePointsIncreasing ==
    /\ Returned => StrictlyIncreasing(timePoints)
    /\ \A list \in OuterCatchResults : StrictlyIncreasing(list)

\* C4 witness: a reconciled result whose time points come from a later reading
\* month and from the historical table.
C4_Witness ==
    /\ Returned
    /\ path = "reconciled"
    /\ feedMonths = {200001, 202504}
    /\ Len(timePoints) = 3

\* C5: during extraction every key of the time-point set and of the
\* temperature, density and salinity lookups is the month of a reading dated
\* on or after 2000-01 (a reading with a missing, unparseable or earlier date
\* adds nothing), and every returned time point has year >= 2000.
C5_OnlyDatesFrom2000 ==
    /\ pc \in {"sites", "readings"} =>
        /\ Range(timePoints) \subseteq feedMonths
        /\ DOMAIN tempLookup \subseteq feedMonths
        /\ DOMAIN densityLookup \subseteq feedMonths
        /\ DOMAIN salinityLookup \subseteq feedMonths
    /\ \A e \in realDensity \cup realSalinity : e[1] \in feedMonths
    /\ Returned => \A i \in 1..Len(timePoints) : YearOf(timePoints[i]) >= 2000

\* C5 witness: a result returned from a feed that held a badly dated reading.
C5_Witness == Returned /\ sawBadDate /\ path = "reconciled" /\ feedMonths # {}

\* C6: both returned ranges satisfy min < max.
C6_RangeMinBelowMax ==
    Returned =>
        /\ dataRanges.density[1] < dataRanges.density[2]
        /\ dataRanges.salinity[1] < dataRanges.salinity[2]

\* C21: the lower bound of the returned density range is never below 1.0,
\* whatever the real readings are.  calculateRange clamps the lower bound at 0
\* only, so a real density below 1.0 takes the range below 1.0.
C21_DensityRangeFromOne ==
    Returned => dataRanges.density[1] >= 1000000

\* a station extracted from the feed is in the returned list
RealStationsSurvive ==
    /\ Len(processedStations) > 0
    /\ \A i \in 1..Len(processedStations) : processedStations[i].coordsSource # "mock"

\* the months of the calendar from 2000-01 to the month of now
MonthsSince2000(now) == {ym \in CalendarWindow : 200001 <= ym /\ ym <= now}

\* C26: when no station (or no time point) survives the extraction, the
\* loader returns exactly the allowed station identifiers as stations, time
\* points that include every month from 2000-01 to the current month,
\* density and salinity that are synthetic in full, with no extracted value
\* kept, and usingMockData = true.
C26_DegenerateInputPolicy ==
    Returned =>
        \/ /\ RealStationsSurvive
           /\ path # "fullSynthetic"
        \/ /\ path = "fullSynthetic"
           /\ [i \in 1..Len(processedStations) |-> processedStations[i].id] = ALLOWED_SITES
           /\ \E now \in NowChoices : MonthsSince2000(now) \subseteq Range(timePoints)
           /\ StrictlyIncreasing(timePoints)
           /\ realDensity = {} /\ realSalinity = {}
           /\ AllWithin(densityLookup, DENSITY_MIN, DENSITY_MAX)
           /\ AllWithin(salinityLookup, SALINITY_MIN, SALINITY_MAX)
           /\ usingMockData

\* the feed answered with a site whose station was dropped, and the result is
\* the synthetic dataset up to the current month
C26_Witness ==
    /\ Returned
    /\ Len(sitesJson) > 0
    /\ errorMessage = "Data unavailable"
    /\ path = "fullSynthetic"
    /\ processedStations = MockStations
    /\ 202504 \in Range(timePoints)
    /\ usingMockData

Filtered == \A i \in 1..Len(sitesJson) : ~sitesJson[i].isNull

\* the returned list holds a station made from the site record
StationOf(site) ==
    \E j \in 1..Len(processedStations) :
        /\ processedStations[j].id = site.id
        /\ processedStations[j].coordsSource # "mock"

\* C12: every site record that passed the allowed-site filter has its station
\* in the returned list, one station per record.  The code drops the station
\* of a Point geometry whose coordinate members are null, and when no station
\* is left it returns the nine synthetic stations instead.
C12_NoStationDropped ==
    (Returned /\ Filtered /\ Len(sitesJson) > 0) =>
        /\ Len(processedStations) = Len(sitesJson)
        /\ \A i \in 1..Len(sitesJson) : StationOf(sitesJson[i])

\* C14: whatever the station feed does, the load returns a result whose
\* stations list and timePoints list are both non-empty.
C14_ResolvesNonEmpty ==
    Returned => Len(processedStations) > 0 /\ Len(timePoints) > 0

\* the fetch failed and the result holds the synthetic stations
C14_Witness ==
    /\ Returned
    /\ errorMessage = "Error fetching from API"
    /\ path = "fullSynthetic"
    /\ Len(processedStations) = Len(ALLOWED_SITES)
    /\ Len(timePoints) > 0

\* C15: a malformed record is passed over on its own.  Every temperature of the
\* result is one averaged number, and every allowed site of the feed that has a
\* position keeps its station although another entry of the feed is null.  In
\* the code a null reading makes site.readings.filter throw and a null site
\* entry makes the allowed-site filter throw; both errors end the extraction.
C15_MalformedRecordSkippedAlone ==
    Returned =>
        /\ \A ym \in DOMAIN tempLookup : tempLookup[ym].k # "list"
        /\ \A i \in 1..Len(sitesJson) :
              (/\ ~sitesJson[i].isNull
               /\ IsAllowed(sitesJson[i])
               /\ HasPosition(processSiteCoordinates(sitesJson[i])))
                  => StationOf(sitesJson[i])

-----------------------------------------------------------------------------
(* Properties of renderHeatmap *)

Partitioned == rpc = "grid"

\* the grid loop has interpolated a cell (no cell centre has x = 0)
Interpolated == rpc = "grid" /\ cell.x # 0

Regions == {"north", "south"}

SamplesOf(region) == IF region = "north" THEN northDataPoints ELSE southDataPoints

ResultOf(region) == IF region = "north" THEN cell.north ELSE cell.south

\* indices of the samples whose squared distance to the cell is below epsilon
Coincident(points) ==
    {i \in 1..Len(points) : DistanceSq(cell.x, cell.y, points[i]) < CoincidenceEpsilon}

SamePosition(p, q) == p.x = q.x /\ p.y = q.y

AtCell(p) == p.x = cell.x /\ p.y = cell.y

\* |a - b| <= |b| * 2^-(MantissaBits - 2): a relative error of four half-units
\* in the last place, 2^-51 for the program's doubles
WithinRounding(a, b) ==
    LET e == IF a[2] < b[2] THEN a[2] ELSE b[2]
        sa == a[1] * Pow2(a[2] - e)
        sb == b[1] * Pow2(b[2] - e)
        diff == IF sa < sb THEN sb - sa ELSE sa - sb
    IN  diff * Pow2(MantissaBits - 2) <= sb

\* C7 (as stated): when the target is within epsilon of a sample, idw returns
\* that sample's value, whichever sample within epsilon is meant and whatever
\* the other samples are.
C7_AnyCoincidentSample ==
    Interpolated =>
        \A region \in Regions : \A i \in Coincident(SamplesOf(region)) :
            ResultOf(region) = Num(SamplesOf(region)[i].value)

\* C7 (amended): when the target is within epsilon of at least one sample, idw
\* returns exactly the value of the first such sample in array order, whatever
\* the values, positions, order and number of the other samples.
C7_FirstCoincidentSample ==
    Interpolated =>
        \A region \in Regions :
            Coincident(SamplesOf(region)) # {} =>
                ResultOf(region) =
                    Num(SamplesOf(region)[Min(Coincident(SamplesOf(region)))].value)

C7_Witness ==
    /\ Interpolated
    /\ \E region \in Regions :
        /\ Len(SamplesOf(region)) = 2
        /\ Coincident(SamplesOf(region)) = {2}
        /\ SamplesOf(region)[1].value # SamplesOf(region)[2].value
        /\ ResultOf(region) = Num(SamplesOf(region)[2].value)

\* C8 (as stated): with exactly one sample, idw returns that sample's value at
\* every cell of the grid, whatever the distance.
C8_SingleSampleExact ==
    Interpolated =>
        \A region \in Regions :
            Len(SamplesOf(region)) = 1 =>
                ResultOf(region) = Num(SamplesOf(region)[1].value)

\* C8 (amended): with exactly one sample, idw returns at every cell of the grid
\* a number within floating-point rounding of that sample's value (the rounded
\* quotient of the rounded product value * weight by the weight), and exactly
\* the value when the cell is within epsilon of the sample.
C8_SingleSampleWithinRounding ==
    Interpolated =>
        \A region \in Regions :
            Len(SamplesOf(region)) = 1 =>
                /\ IsNum(ResultOf(region))
                /\ WithinRounding(ResultOf(region).v, SamplesOf(region)[1].value)
                /\ Coincident(SamplesOf(region)) # {} =>
                        ResultOf(region) = Num(SamplesOf(region)[1].value)

C8_Witness ==
    /\ Interpolated
    /\ \E region \in Regions :
        /\ Len(SamplesOf(region)) = 1
        /\ Coincident(SamplesOf(region)) = {}
        /\ IsNum(ResultOf(region))
        /\ ResultOf(region) # Num(SamplesOf(region)[1].value)

\* C9 (as stated): for two samples of one region at identical coordinates with
\* different values, idw exactly at that position returns each station's own
\* value.
C9_EachStationOwnValue ==
    Interpolated =>
        \A region \in Regions : \A i, j \in 1..Len(SamplesOf(region)) :
            (/\ i # j
             /\ SamePosition(SamplesOf(region)[i], SamplesOf(region)[j])
             /\ SamplesOf(region)[i].value # SamplesOf(region)[j].value
             /\ AtCell(SamplesOf(region)[i]))
            => ResultOf(region) = Num(SamplesOf(region)[i].value)

\* C9 (amended): for two stations of one region at identical coordinates with
\* different values, idw exactly at that position returns the value of the one
\* that comes first in the station list, unless a still earlier station of the
\* region lies within epsilon of the position.
C9_EarlierStationWins ==
    Interpolated =>
        \A region \in Regions : \A i, j \in 1..Len(SamplesOf(region)) :
            (/\ SamplesOf(region)[i].src < SamplesOf(region)[j].src
             /\ SamePosition(SamplesOf(region)[i], SamplesOf(region)[j])
             /\ SamplesOf(region)[i].value # SamplesOf(region)[j].value
             /\ AtCell(SamplesOf(region)[i])
             /\ \A k \in Coincident(SamplesOf(region)) :
                    SamplesOf(region)[k].src >= SamplesOf(region)[i].src)
            => ResultOf(region) = Num(SamplesOf(region)[i].value)

C9_Witness ==
    /\ Interpolated
    /\ \E region \in Regions :
        /\ Len(SamplesOf(region)) = 2
        /\ SamePosition(SamplesOf(region)[1], SamplesOf(region)[2])
        /\ SamplesOf(region)[1].value # SamplesOf(region)[2].value
        /\ AtCell(SamplesOf(region)[1])
        /\ stationsProp[1].id # stationsProp[2].id

\* station i of the list has a numeric value and a valid projected position
HasSample(i) ==
    /\ currentDataForTimepoint[stationsProp[i].id].k = "num"
    /\ stationsProp[i].lonlat # "NaN"
    /\ projection(stationsProp[i].lonlat).valid

SamplesFrom(points, i) == {p \in 1..Len(points) : points[p].src = i}

\* C10: after the partition every station with a numeric value and a valid
\* projected position has exactly one sample, in the north array if its id is in
\* northArmStationIds and in the south array otherwise, never in both; the
\* sample carries the station's value and projected position; every other
\* station has no sample.
C10_PartitionIsDisjointCover ==
    Partitioned =>
        \A i \in 1..Len(stationsProp) :
            LET north == SamplesFrom(northDataPoints, i)
                south == SamplesFrom(southDataPoints, i)
                own == IF stationsProp[i].id \in {"RD2", "SJ-1", "RD1", "LVG4"}
                       THEN northDataPoints ELSE southDataPoints
            IN  IF HasSample(i)
                THEN /\ Cardinality(north) + Cardinality(south) = 1
                     /\ \E p \in 1..Len(own) :
                            /\ own[p].src = i
                            /\ own[p].value = currentDataForTimepoint[stationsProp[i].id].v
                            /\ own[p].x = projection(stationsProp[i].lonlat).x
                            /\ own[p].y = projection(stationsProp[i].lonlat).y
                ELSE north = {} /\ south = {}

C10_Witness ==
    /\ Partitioned
    /\ Len(stationsProp) = 2
    /\ Len(northDataPoints) = 1
    /\ Len(southDataPoints) = 1

Drawn == rpc = "drawn"

\* column and row of the cell interpolated last
CellCol == cell.x \div cellSize
CellRow == cell.y \div cellSize

\* the clip id of a region of the boundary feed
ClipIdOf(region) == <<"lake", "clip", region, "arm">>

ArmOf(id) == IF id \in {"RD2", "SJ-1", "RD1", "LVG4"} THEN "north" ELSE "south"

\* the stations prop without the stations of the other region
OwnStations(region) ==
    SelectSeq(stationsProp, LAMBDA station : ArmOf(station.id) = region)

\* the values of the time point without those of the other region's stations
OwnData(region) ==
    [id \in {id \in DOMAIN currentDataForTimepoint : ArmOf(id) = region} |->
        currentDataForTimepoint[id]]

\* the value of the cell for a region when the other region has no station
AloneAtCell(region) ==
    LET parts == PartitionFrom(OwnStations(region), OwnData(region), 1, <<>>, <<>>)
        points == IF region = "north" THEN parts.north ELSE parts.south
        OnlyOwn(list) == [i \in 1..Len(list) |-> [x |-> list[i].x, y |-> list[i].y,
                                                   value |-> list[i].value]]
    IN  /\ OnlyOwn(points) = OnlyOwn(SamplesOf(region))
        /\ ResultOf(region) = IF Len(points) > 0
                              THEN idw(cell.x, cell.y, points) ELSE NotDrawn

\* C23: each region is interpolated from its own stations only: the samples
\* of a region and the value of every cell of its raster are those obtained
\* with the other region's stations and values removed from the props.
C23_RegionsInterpolatedApart ==
    Interpolated => \A region \in Regions : AloneAtCell(region)

\* both regions have a sample, of different values, and a cell was interpolated
C23_Witness ==
    /\ Interpolated
    /\ Len(northDataPoints) = 1
    /\ Len(southDataPoints) = 1
    /\ northDataPoints[1].value # southDataPoints[1].value
    /\ cell.north # cell.south

\* a <= b for two floating-point numbers
AtMost(a, b) ==
    LET e == IF a[2] < b[2] THEN a[2] ELSE b[2]
    IN  a[1] * Pow2(a[2] - e) <= b[1] * Pow2(b[2] - e)

\* the values of the samples of a region
ValuesOf(region) == {SamplesOf(region)[i].value : i \in 1..Len(SamplesOf(region))}

\* null is returned only for an empty sample set, and then no cell of the
\* region is painted
NullOnlyWhenEmpty(region) ==
    /\ idw(cell.x, cell.y, SamplesOf(region)) = Null <=> Len(SamplesOf(region)) = 0
    /\ Len(SamplesOf(region)) = 0 =>
            ResultOf(region) = NotDrawn /\ ~cell.painted[region]

\* C30 (as stated): for a non-empty sample set the value idw returns lies
\* between the minimum and the maximum sample value, and idw returns null only
\* for an empty sample set, for which no cell of the region is painted.
C30_ConvexCombination ==
    Interpolated =>
        \A region \in Regions :
            /\ NullOnlyWhenEmpty(region)
            /\ Len(SamplesOf(region)) > 0 =>
                    /\ IsNum(ResultOf(region))
                    /\ \E v \in ValuesOf(region) : AtMost(v, ResultOf(region).v)
                    /\ \E v \in ValuesOf(region) : AtMost(ResultOf(region).v, v)

\* C30 (amended): for a non-empty sample set idw returns a number that lies
\* between the minimum and the maximum sample value or within floating-point
\* rounding of one of them, and exactly a sample's value when the target
\* is within epsilon of a sample; it returns null only for an empty sample
\* set, for which no cell of the region is painted.
C30_ConvexWithinRounding ==
    Interpolated =>
        \A region \in Regions :
            /\ NullOnlyWhenEmpty(region)
            /\ Len(SamplesOf(region)) > 0 =>
                    /\ IsNum(ResultOf(region))
                    /\ \E v \in ValuesOf(region) :
                            \/ AtMost(v, ResultOf(region).v)
                            \/ WithinRounding(ResultOf(region).v, v)
                    /\ \E v \in ValuesOf(region) :
                            \/ AtMost(ResultOf(region).v, v)
                            \/ WithinRounding(ResultOf(region).v, v)
                    /\ Coincident(SamplesOf(region)) # {} =>
                            ResultOf(region).v \in ValuesOf(region)

\* two samples of different values, the cell away from both and its value
\* strictly between the two; the other region is empty and not painted
C30_Witness ==
    /\ Interpolated
    /\ \E region \in Regions :
        /\ Cardinality(ValuesOf(region)) = 2
        /\ Coincident(SamplesOf(region)) = {}
        /\ ResultOf(region).v \notin ValuesOf(region)
        /\ \E v \in ValuesOf(region) : AtMost(v, ResultOf(region).v)
        /\ \E v \in ValuesOf(region) : AtMost(ResultOf(region).v, v)
        /\ \E other \in Regions : Len(SamplesOf(other)) = 0 /\ ~cell.painted[other]

\* C19: with the simplified geometry, a time point for which a station has a
\* value still gets a raster image.  The single feature of the simplified
\* geometry has no name, so neither northClipId nor southClipId is set and
\* no image is appended.
C19_SimplifiedGeometryStillDrawn ==
    (/\ Drawn
     /\ lakeDataProp = createSimpleGeoJSON
     /\ Len(northDataPoints) + Len(southDataPoints) > 0) => Len(images) >= 1

-----------------------------------------------------------------------------
(* Properties of the helper functions *)

Applied(fn) == call.fn = fn

IsFinite(x) == x.k = "num"

\* C11: processSiteCoordinates gives every site record a finite longitude and a
\* finite latitude, and the default coordinate (-112.5, 41.0) when neither the
\* geometry nor the UTM pair resolves.  The code copies the two members of a
\* Point's coordinates array without looking at them, so a text or a null
\* member becomes the station's longitude or latitude.
C11_FiniteCoordinates ==
    Applied("processSiteCoordinates") =>
        /\ IsFinite(call.result.longitude)
        /\ IsFinite(call.result.latitude)
        /\ call.result.coordsSource = "none" =>
                /\ call.result.longitude = Num(-1125000)
                /\ call.result.latitude = Num(410000)

NumericField(x) == x.k \in {"num", "strnum"}

\* the density a salinity is converted to: 1 + salinity * 0.0008
DensityOfSalinity(x) == Num(1000000 + (x.v * 4) \div 5)

LabLikeNumbers(r) ==
    {Num(LabKeys(r)[i].v) : i \in {i \in 1..Len(LabKeys(r)) : NumericField(LabKeys(r)[i])}}

\* C24: extractDensityValue returns the first numeric value among (1) the
\* exactly named laboratory field, (2) any field of a name that includes
\* "LABminusDEN", (3) density, (4) 1 + 0.0008 x salinity; a source is used
\* only when every source before it is absent or not numeric.  The code looks
\* at the first key that includes "LABminusDEN" only, so a numeric field under
\* a later such key is passed over for density or salinity.
C24_PriorityOrder ==
    Applied("extractDensityValue") =>
        LET r == call.arg
        IN  IF NumericField(r.lab) THEN call.result = Num(r.lab.v)
            ELSE IF LabLikeNumbers(r) # {} THEN call.result \in LabLikeNumbers(r)
            ELSE IF NumericField(r.density) THEN call.result = Num(r.density.v)
            ELSE IF NumericField(r.salinity) THEN call.result = DensityOfSalinity(r.salinity)
            ELSE call.result = Null

-----------------------------------------------------------------------------
(* Properties of the main component *)

\* the station fetch itself failed: rejected, or answered with a status that
\* is not ok (no site was read)
StationFeedFailed ==
    /\ errorMessage \in {"Error fetching from API", "API fetch failed"}
    /\ sitesJson = <<>>

BoundaryFeedFailed == response.outcome \in {"rejected", "httpError", "badBody"}

Loaded == apc = "done"

\* C16: a failed station feed gives a synthetic dataset with usingMockData and
\* an error message; a failed boundary feed gives data = null with an error
\* message, and the component installs the simplified geometry and the error;
\* the load completes and the component shows both warnings.
C16_FailuresFallBackWithWarning ==
    /\ (Returned /\ StationFeedFailed) =>
            /\ usingMockData
            /\ path = "fullSynthetic"
            /\ errorMessage # "null"
            /\ FullCoverage(densityLookup) /\ FullCoverage(salinityLookup)
    /\ BoundaryFeedFailed =>
            /\ GeoJsonResult(response.outcome).data = NoLakeData
            /\ GeoJsonResult(response.outcome).error # "null"
            /\ state.lakeData = createSimpleGeoJSON
            /\ GeoJsonResult(response.outcome).error \in Range(state.error)
    /\ (Loaded /\ StationFeedFailed) =>
            /\ state.usingMockData
            /\ errorMessage \in Range(state.error)
            /\ ~state.isLoading

\* both feeds failed and the load has completed with both fallbacks
C16_Witness ==
    /\ Loaded
    /\ response.outcome = "rejected"
    /\ StationFeedFailed
    /\ state.lakeData = createSimpleGeoJSON
    /\ state.usingMockData
    /\ Len(state.stations) = Len(ALLOWED_SITES)
    /\ state.error = <<"Failed to load map outline", "Error fetching from API">>

\* C17: the initial load never hangs: until isLoading is false there is a step
\* the load can take, whatever the endpoints do.  The code clears the 5 second
\* timer of the boundary fetch when the headers arrive, so a body that never
\* arrives leaves response.json() pending for ever.
C17_LoadNeverHangs ==
    /\ Loaded => ~state.isLoading
    /\ ~Loaded => ENABLED AppNext

BoundaryPending == apc \in {"geoFetch", "geoBody"}

StationLoadStarted == apc \in {"siteLoad", "done"}

\* C18: the two loads run concurrently: while the boundary fetch is pending
\* the station fetch has been started as well.  The code awaits
\* loadGeoJsonData before it calls loadSiteAndTempData.
C18_LoadsRunConcurrently == BoundaryPending => StationLoadStarted

\* the reconciled data held by the component
ReconciledData ==
    <<state.stations, state.timePoints, state.allData, state.dataRanges>>

\* C20: the load runs once, and once it has installed the reconciled data no
\* operation (slider, timer tick, variable change, play or pause, render)
\* modifies stations, timePoints, the value maps or the data ranges.
C20_ReconciledDataReadOnly ==
    [][Loaded => (Loaded' /\ ReconciledData' = ReconciledData)]_vars

\* after the load the slider was moved, the variable changed and the view
\* rendered, with the installed data in place
C20_Witness ==
    /\ Loaded
    /\ state.stations = processedStations
    /\ state.timePoints = timePoints
    /\ Len(state.timePoints) > 1
    /\ state.currentTimeIndex = 0
    /\ state.selectedVariable = "salinity"
    /\ state.playing
    /\ currentDataForTimepoint = state.allData.salinity[state.timePoints[1]]
    /\ lakeDataProp = createSimpleGeoJSON

\* a slider value that is not the text of an index of the time points
OutOfRange(value) ==
    \/ value.k # "strnum"
    \/ value.v < 0
    \/ value.v >= Len(state.timePoints)

\* C28: whenever timePoints is not empty, 0 <= currentTimeIndex <=
\* timePoints.length - 1, after the load, play and pause, timer ticks and
\* slider changes; a slider change with an out-of-range or non-numeric value
\* leaves currentTimeIndex and playing as they are.
C28_IndexWithinTimePoints ==
    /\ Len(state.timePoints) > 0 =>
            /\ 0 <= state.currentTimeIndex
            /\ state.currentTimeIndex <= Len(state.timePoints) - 1
    /\ \A value \in SliderValues :
            OutOfRange(value) =>
                /\ handleSliderChange(state, value).currentTimeIndex
                        = state.currentTimeIndex
                /\ handleSliderChange(state, value).playing = state.playing

\* the animation runs in the middle of four time points, where the slider
\* can report a value on either side of the range
C28_Witness ==
    /\ Loaded
    /\ Len(state.timePoints) = 4
    /\ state.playing
    /\ state.currentTimeIndex = 2
    /\ \E value \in SliderValues : value.k = "strnum" /\ value.v = Len(state.timePoints)

\* the index of the last time point
LastTimeIndex == Len(state.timePoints) - 1

\* C29 (as stated): each tick advances currentTimeIndex by exactly one, and
\* at the tick at which the index reaches the last time point playing
\* becomes false and the interval is cleared.
C29_StopsOnReachingLast ==
    [][TimerTick =>
        /\ state'.currentTimeIndex = state.currentTimeIndex + 1
        /\ state'.currentTimeIndex = LastTimeIndex =>
                ~state'.playing /\ ~state'.playTimerRef]_vars

\* the ticks still to come while the animation plays
TicksLeft(st) ==
    IF st.playing THEN Len(st.timePoints) - st.currentTimeIndex ELSE 0

\* C29 (amended): the interval runs exactly while playing is true, so no
\* tick fires while playing is false and a tick can fire whenever it is
\* true.  A tick below the last time point advances currentTimeIndex by
\* exactly one and leaves playing true, also when it reaches the last time
\* point; the tick that finds the index at the last time point leaves it
\* there, sets playing to false and clears the interval.  Each tick lowers
\* the number of ticks left, so playback ends one tick after the index has
\* reached the last time point.
C29_StopsOneTickAfterLast ==
    /\ [](/\ state.playTimerRef <=> state.playing
          /\ state.playing => ENABLED TimerTick)
    /\ [][TimerTick =>
            /\ TicksLeft(state') = TicksLeft(state) - 1
            /\ IF state.currentTimeIndex < LastTimeIndex
               THEN /\ state'.currentTimeIndex = state.currentTimeIndex + 1
                    /\ state'.playing /\ state'.playTimerRef
               ELSE /\ state'.currentTimeIndex = LastTimeIndex
                    /\ ~state'.playing /\ ~state'.playTimerRef]_vars

\* the animation is still playing with the index at the last of four time
\* points: one more tick is due
C29_Witness ==
    /\ Loaded
    /\ Len(state.timePoints) = 4
    /\ state.currentTimeIndex = LastTimeIndex
    /\ state.playing
    /\ state.playTimerRef
    /\ ENABLED TimerTick

\* C27: a change of the selection makes the render effect request one frame
\* and cancel the frame still pending from the selection before, so at most
\* one frame is pending, the pending frame is for the selection of the
\* latest render, and once no frame is pending the heatmap drawn last is
\* the one of that selection.
C27_OnePendingRender ==
    /\ [](/\ Len(frame.pending) <= 1
          /\ frame.pending # <<>> =>
                /\ frame.pending[1].selection = frame.deps
                /\ frame.pending[1].id = frame.animationId
          /\ (frame.pending = <<>> /\ frame.deps # NoSelection) =>
                frame.rendered = frame.deps)
    /\ [][frame'.deps # frame.deps =>
            /\ frame'.deps = CurrentSelection
            /\ Len(frame'.pending) = 1
            /\ frame'.rendered = frame.rendered]_vars

\* a second selection was made while the frame of the first was pending: one
\* frame is pending, for the second selection, and nothing has been drawn
C27_Witness ==
    /\ Loaded
    /\ frame.deps = CurrentSelection
    /\ frame.deps.variable = "salinity"
    /\ Len(frame.pending) = 1
    /\ frame.animationId = 2
    /\ frame.rendered = NoSelection

====
